---- MODULE Spec2Model ----
(***************************************************************************)
(* Model of src/index.js: the chunked multi-source header synchroniser     *)
(* (sync -> buildHeaderChain -> populateHeaderChain tasks ->               *)
(* getHeaderStoreFromChunks -> validateCheckpoints).                       *)
(*                                                                         *)
(* A header is identified by the height it sits at on the remote chain;    *)
(* its hash is that same identity.  JavaScript numbers that can become NaN *)
(* (heightDelta, bestStep, heightExtra, the loop variable, chunk.to, the   *)
(* count of a batch call) are tagged: <<n>> is the finite number n and     *)
(* <<>> is NaN.                                                            *)
(***************************************************************************)
EXTENDS Integers, Sequences, FiniteSets, TLC

\* ---------------------------------------------------------------- bounds
MaxFrom == 1
MaxTo == 7
MaxStep == 3
MaxSeeds == 3
\* Chunk lists handed to getHeaderStoreFromChunks on its own.
MaxChunks == 3
MaxChunkFrom == 2
MaxItems == 2
\* Most batch calls one populateHeaderChain invocation is followed through
\* (a loop whose step is 0 never ends by itself).
MaxCalls == MaxTo + 1

\* ------------------------------------------------- JavaScript arithmetic
NaN == <<>>
Num(n) == <<n>>
IsNaN(x) == x = <<>>
Val(x) == x[1]

\* parseInt(a / b) for integers a and b >= 0: a / 0 is +-Infinity or NaN,
\* which parseInt turns into NaN; otherwise the quotient truncated to zero.
ParseIntDiv(a, b) ==
  IF b = 0 THEN NaN
  ELSE IF a >= 0 THEN Num(a \div b) ELSE Num(-((-a) \div b))

\* Math.min(x, y): NaN when either argument is NaN.
MathMin(x, y) ==
  IF IsNaN(x) \/ IsNaN(y) THEN NaN
  ELSE IF Val(x) <= Val(y) THEN x ELSE y

\* a % b with the sign of the dividend; NaN for b = 0 or b = NaN.
JsRem(a, b) ==
  IF IsNaN(b) THEN NaN
  ELSE IF Val(b) = 0 THEN NaN
  ELSE LET m == IF Val(b) < 0 THEN -Val(b) ELSE Val(b)
       IN IF a >= 0 THEN Num(a % m) ELSE Num(-((-a) % m))

JsAdd(x, y) == IF IsNaN(x) \/ IsNaN(y) THEN NaN ELSE Num(Val(x) + Val(y))
JsSub(x, y) == IF IsNaN(x) \/ IsNaN(y) THEN NaN ELSE Num(Val(x) - Val(y))
\* x < y: false when either side is NaN.
JsLt(x, y) == IF IsNaN(x) \/ IsNaN(y) THEN FALSE ELSE Val(x) < Val(y)

\* ------------------------------------------------------------------ state
VARIABLES
  seeds,         \* the source list handed to buildHeaderChain (nodes)
  parallel,      \* cmd.parallel
  fromHeight,    \* cmd.from
  toHeight,      \* cmd.to
  step,          \* cmd.step
  pc,            \* position of sync / buildHeaderChain
  tasks,         \* the populateHeaderChain invocations, by index
  rootCalls,     \* the getBlockHash / getBlockHeader calls issued so far
  headerChain,   \* the SpvChain instance
  headerChunks,  \* the headerChunks array
  headerStore,   \* result of getHeaderStoreFromChunks
  checkpoints,   \* the hashes sampled by validateCheckpoints
  outcome,       \* what validateCheckpoints reported
  failed         \* TRUE once some remote call has failed

vars == <<seeds, parallel, fromHeight, toHeight, step, pc, tasks, rootCalls,
          headerChain, headerChunks, headerStore, checkpoints, outcome, failed>>

inputs == <<seeds, parallel, fromHeight, toHeight, step>>

\* ------------------------------------------------------- remote collaborator
\* getBlockHeaders(height, count): count headers starting at height.
getBlockHeaders(height, count) ==
  IF IsNaN(count) THEN <<>>
  ELSE IF Val(count) <= 0 THEN <<>>
  ELSE [k \in 1..Val(count) |-> height + k - 1]

\* ------------------------------------------------------------ chain structure
NoChain == [built |-> FALSE, root |-> 0, headers |-> {}, batches |-> 0]

\* Mutant of SpvChain: the chain is built on the default genesis instead of
\* the root header that was fetched.
SpvChainDefaultGenesis(rootHeader) ==
  [built |-> TRUE, root |-> 0, headers |-> {0}, batches |-> 0]

\* new SpvChain('custom_genesis', numConfirms, fromBlockHeader)
SpvChain(rootHeader) ==
  [built |-> TRUE, root |-> rootHeader, headers |-> {rootHeader}, batches |-> 0]

\* headerChain.addHeaders(newHeaders): headers are placed by linkage, a
\* header already known is not added twice.
addHeaders(chain, newHeaders) ==
  [chain EXCEPT !.headers = @ \cup {newHeaders[k] : k \in 1..Len(newHeaders)},
                !.batches = @ + 1]

\* Height of the tip of the branch linked to the root.
RECURSIVE TipFrom(_, _)
TipFrom(chain, h) ==
  IF (h + 1) \in chain.headers THEN TipFrom(chain, h + 1) ELSE h

\* headerChain.getLongestChain(): the root and the headers linked to it.
getLongestChain(chain) ==
  LET tip == TipFrom(chain, chain.root)
  IN [k \in 1..(tip - chain.root + 1) |->
        [height |-> k - 1, hash |-> chain.root + k - 1]]

\* ------------------------------------------------------- buildHeaderChain
heightDiff == toHeight - fromHeight
heightDelta == ParseIntDiv(heightDiff, Len(seeds))
\* Mutant of bestStep: the automatic step is taken from the whole range
\* instead of one source's share.
bestStepOfDiff == IF step = 0 THEN MathMin(Num(heightDiff), Num(2000)) ELSE Num(step)

bestStep == IF step = 0 THEN MathMin(heightDelta, Num(2000)) ELSE Num(step)

Undefined == [defined |-> FALSE, ips |-> <<>>]

\* seeds.filter(s => s !== seed)
RECURSIVE Filter(_, _)
Filter(list, seed) ==
  IF list = <<>> THEN <<>>
  ELSE IF Head(list) # seed THEN <<Head(list)>> \o Filter(Tail(list), seed)
  ELSE Filter(Tail(list), seed)

excludedSeeds(index) == [defined |-> TRUE, ips |-> Filter(seeds, seeds[index + 1])]

localFromHeight(index) == fromHeight + (Val(heightDelta) * index)
localToHeight(index) == localFromHeight(index) + Val(heightDelta)

\* Ask last node a few extra headers
heightExtra(index) ==
  IF index = Len(seeds) - 1
  THEN JsRem(heightDiff, MathMin(Num(Len(seeds)), bestStep))
  ELSE Num(0)

\* The arguments of one populateHeaderChain invocation, before its loop.
Invocation(from, to, stp, offset, excl, extra) ==
  [pc |-> "start", height |-> Num(from), from |-> from, to |-> to,
   step |-> stp, offset |-> offset, excludedIps |-> excl,
   extraHeight |-> extra, newHeaders |-> <<>>, calls |-> <<>>, pushed |-> 0]

\* The task of seeds[index] (index counted from 0) in parallel mode.
ParallelTask(index) ==
  Invocation(localFromHeight(index), localToHeight(index), bestStep,
             fromHeight, excludedSeeds(index), heightExtra(index))

\* The single invocation of sequential mode.
SequentialTask ==
  Invocation(fromHeight, toHeight, bestStep, fromHeight, Undefined, Num(0))

\* ---------------------------------------------------- populateHeaderChain
\* The loop test and what follows it up to the next await: the next batch
\* call of the loop, else the call for the extra headers, else the return.
\* Mutant of LoopBound: the loop test reads <= where it should read <.
LoopBoundInclusive(t) == JsAdd(JsSub(Num(t.to), t.extraHeight), Num(1))

LoopBound(t) == JsSub(Num(t.to), t.extraHeight)

EnterLoop(t) ==
  IF JsLt(t.height, LoopBound(t))
  THEN [t EXCEPT !.pc = "call",
                 !.calls = Append(@, [height |-> Val(t.height),
                                      count |-> t.step,
                                      excludedIps |-> t.excludedIps])]
  ELSE IF JsLt(Num(0), t.extraHeight)
  THEN [t EXCEPT !.pc = "extra",
                 !.calls = Append(@, [height |-> t.to,
                                      count |-> t.extraHeight,
                                      excludedIps |-> Undefined])]
  ELSE [t EXCEPT !.pc = "done"]

\* The chunk pushed for the batch fetched at `height` with count `count`.
Chunk(height, offset, count, items) ==
  [from |-> height - offset, to |-> JsAdd(Num(height - offset), count),
   items |-> items]

\* Mutant of JoinPc: the join resolves as soon as one task has returned.
JoinPcRace(ts) ==
  IF \E i \in DOMAIN ts : ts[i].pc = "failed" THEN "Failed"
  ELSE IF ts = <<>> \/ \E i \in DOMAIN ts : ts[i].pc = "done" THEN "LogChain"
  ELSE "BuildingChain"

\* Mutant of JoinPc: the join waits for every task to settle and resolves
\* whether or not one of them rejected.
JoinPcAllSettled(ts) ==
  IF \A i \in DOMAIN ts : ts[i].pc \in {"done", "failed"} THEN "LogChain"
  ELSE "BuildingChain"

\* await Promise.all(promises) / await populateHeaderChain(...): where
\* buildHeaderChain stands once the tasks are as given.
JoinPc(ts) ==
  IF \E i \in DOMAIN ts : ts[i].pc = "failed" THEN "Failed"
  ELSE IF \A i \in DOMAIN ts : ts[i].pc = "done" THEN "LogChain"
  ELSE "BuildingChain"

\* Mutant of Rejoin: after a rejection the run carries on with the partial
\* result once the last sibling has settled.
RejoinOnSettle(ts) ==
  IF pc = "BuildingChain" THEN JoinPc(ts)
  ELSE IF pc = "Failed" /\ \A i \in DOMAIN ts : ts[i].pc \in {"done", "failed"}
  THEN "LogChain"
  ELSE pc

\* The continuation of the join runs once: a task that settles after
\* buildHeaderChain has moved on (or rejected) does not move it again.
Rejoin(ts) == IF pc = "BuildingChain" THEN JoinPc(ts) ELSE pc

\* ------------------------------------------------ getHeaderStoreFromChunks
\* chunks.sort((a, b) => a.from - b.from): a stable sort by `from`.
RECURSIVE InsertChunk(_, _)
InsertChunk(sorted, c) ==
  IF sorted = <<>> THEN <<c>>
  ELSE IF c.from < Head(sorted).from THEN <<c>> \o sorted
  ELSE <<Head(sorted)>> \o InsertChunk(Tail(sorted), c)

RECURSIVE SortChunks(_)
SortChunks(chunks) ==
  IF chunks = <<>> THEN <<>>
  ELSE InsertChunk(SortChunks(SubSeq(chunks, 1, Len(chunks) - 1)),
                   chunks[Len(chunks)])

\* Mutant of ChunkEntries: heights counted from baseHeight + 1.
ChunkEntriesOffByOne(chunk) ==
  [k \in 1..Len(chunk.items) |->
     [height |-> chunk.from + k, header |-> chunk.items[k]]]

\* chunk.items.forEach((h, i) => store.push({height: baseHeight + i, header: h}))
ChunkEntries(chunk) ==
  [k \in 1..Len(chunk.items) |->
     [height |-> chunk.from + (k - 1), header |-> chunk.items[k]]]

RECURSIVE FillStore(_)
FillStore(chunks) ==
  IF chunks = <<>> THEN <<>>
  ELSE ChunkEntries(Head(chunks)) \o FillStore(Tail(chunks))

getHeaderStoreFromChunks(chunks) == FillStore(SortChunks(chunks))

\* ----------------------------------------------------- validateCheckpoints
\* headerChain.getLongestChain().map(h => h.hash)
Hashes(chain) ==
  LET lc == getLongestChain(chain) IN [k \in 1..Len(lc) |-> lc[k].hash]

\* .sort(() => 0.5 - Math.random()).slice(0, 2): the first two elements of
\* some reordering of the list, i.e. the elements at up to two distinct
\* positions, in either order.
ShuffleSlice(list) ==
  IF Len(list) <= 1 THEN {list}
  ELSE {<<list[p[1]], list[p[2]]>> :
          p \in {q \in (1..Len(list)) \X (1..Len(list)) : q[1] # q[2]}}

\* Mutant of CheckpointsPresent: the presence check reads h.height where it
\* should read h.hash.
CheckpointsPresentByHeight(cps, chain) ==
  \A k \in 1..Len(cps) :
    \E m \in 1..Len(getLongestChain(chain)) : getLongestChain(chain)[m].height = cps[k]

\* checkpoints.every(cp => headerChain.getLongestChain().map(h => h.hash).includes(cp))
CheckpointsPresent(cps, chain) ==
  \A k \in 1..Len(cps) : \E m \in 1..Len(Hashes(chain)) : Hashes(chain)[m] = cps[k]

\* ------------------------------------------------------------------ Init
Init ==
  /\ \E n \in 0..MaxSeeds : seeds = [k \in 1..n |-> k]
  /\ parallel \in BOOLEAN
  /\ fromHeight \in 0..MaxFrom
  /\ toHeight \in 0..MaxTo
  /\ step \in 0..MaxStep
  /\ pc = "Idle"
  /\ tasks = <<>>
  /\ rootCalls = <<>>
  /\ headerChain = NoChain
  /\ headerChunks = <<>>
  /\ headerStore = <<>>
  /\ checkpoints = <<>>
  /\ outcome = "none"
  /\ failed = FALSE

\* --------------------------------------------------------------- actions
\* sync -> buildHeaderChain: api.getBlockHash(fromHeight) is issued.
Start ==
  /\ pc = "Idle"
  /\ pc' = "FetchingRootHash"
  /\ rootCalls' = Append(rootCalls, [op |-> "getBlockHash", arg |-> fromHeight])
  /\ UNCHANGED <<inputs, tasks, headerChain, headerChunks, headerStore,
                 checkpoints, outcome, failed>>

\* getBlockHash returns: api.getBlockHeader(fromBlockHash) is issued.
RootHashReturns ==
  /\ pc = "FetchingRootHash"
  /\ pc' = "FetchingRootHeader"
  /\ rootCalls' = Append(rootCalls, [op |-> "getBlockHeader", arg |-> fromHeight])
  /\ UNCHANGED <<inputs, tasks, headerChain, headerChunks, headerStore,
                 checkpoints, outcome, failed>>

\* getBlockHash or getBlockHeader rejects: buildHeaderChain and sync reject.
RootCallFails ==
  /\ pc \in {"FetchingRootHash", "FetchingRootHeader"}
  /\ pc' = "Failed"
  /\ failed' = TRUE
  /\ UNCHANGED <<inputs, tasks, rootCalls, headerChain, headerChunks,
                 headerStore, checkpoints, outcome>>

\* getBlockHeader returns: the chain is constructed from the root and the
\* tasks are dispatched, each running up to its first await.
RootHeaderReturns ==
  /\ pc = "FetchingRootHeader"
  /\ headerChain' = SpvChain(fromHeight)
  /\ tasks' = IF parallel
              THEN [i \in 1..Len(seeds) |-> EnterLoop(ParallelTask(i - 1))]
              ELSE <<EnterLoop(SequentialTask)>>
  /\ pc' = JoinPc(tasks')
  /\ UNCHANGED <<inputs, rootCalls, headerChunks, headerStore, checkpoints,
                 outcome, failed>>

\* A batch call of the loop of task i returns its headers; the task then
\* waits in logOutput.
TaskCallReturns(i) ==
  /\ tasks[i].pc = "call"
  /\ LET t == tasks[i]
         c == t.calls[Len(t.calls)]
     IN tasks' = [tasks EXCEPT ![i] =
                    [t EXCEPT !.pc = "log",
                              !.newHeaders = getBlockHeaders(c.height, c.count)]]
  /\ UNCHANGED <<inputs, pc, rootCalls, headerChain, headerChunks, headerStore,
                 checkpoints, outcome, failed>>

\* A batch call of task i (of the loop, or the one for the extra headers)
\* rejects: the invocation rejects, and with it the join.
TaskCallFails(i) ==
  /\ tasks[i].pc \in {"call", "extra"}
  /\ tasks' = [tasks EXCEPT ![i].pc = "failed"]
  /\ pc' = Rejoin(tasks')
  /\ failed' = TRUE
  /\ UNCHANGED <<inputs, rootCalls, headerChain, headerChunks, headerStore,
                 checkpoints, outcome>>

\* Mutant of TaskLogResumes: control is yielded between addHeaders and the
\* push of the chunk, as if the insertion were awaited.
TaskLogResumesYielding(i) ==
  \/ /\ tasks[i].pc = "log"
     /\ headerChain' = addHeaders(headerChain, tasks[i].newHeaders)
     /\ tasks' = [tasks EXCEPT ![i].pc = "push"]
     /\ UNCHANGED <<inputs, pc, rootCalls, headerChunks, headerStore,
                    checkpoints, outcome, failed>>
  \/ /\ tasks[i].pc = "push"
     /\ Len(tasks[i].calls) < MaxCalls
     /\ LET t == tasks[i]
            c == t.calls[Len(t.calls)]
        IN /\ headerChunks' = Append(headerChunks,
                                     Chunk(c.height, t.offset, t.step, t.newHeaders))
           /\ tasks' = [tasks EXCEPT ![i] =
                          EnterLoop([t EXCEPT !.height = JsAdd(t.height, t.step),
                                              !.newHeaders = <<>>,
                                              !.pushed = @ + 1])]
     /\ pc' = Rejoin(tasks')
     /\ UNCHANGED <<inputs, rootCalls, headerChain, headerStore, checkpoints,
                    outcome, failed>>

\* logOutput of task i is over: the batch is inserted and recorded, the loop
\* variable advances, and the task runs up to its next await.
TaskLogResumes(i) ==
  /\ tasks[i].pc = "log"
  /\ Len(tasks[i].calls) < MaxCalls
  /\ LET t == tasks[i]
         c == t.calls[Len(t.calls)]
     IN /\ headerChain' = addHeaders(headerChain, t.newHeaders)
        /\ headerChunks' = Append(headerChunks,
                                  Chunk(c.height, t.offset, t.step, t.newHeaders))
        /\ tasks' = [tasks EXCEPT ![i] =
                       EnterLoop([t EXCEPT !.height = JsAdd(t.height, t.step),
                                           !.newHeaders = <<>>,
                                           !.pushed = @ + 1])]
  /\ pc' = Rejoin(tasks')
  /\ UNCHANGED <<inputs, rootCalls, headerStore, checkpoints, outcome, failed>>

\* The call for the extra headers of task i returns: they are inserted and
\* recorded, and the invocation returns.
TaskExtraReturns(i) ==
  /\ tasks[i].pc = "extra"
  /\ LET t == tasks[i]
         c == t.calls[Len(t.calls)]
         extraHeaders == getBlockHeaders(c.height, c.count)
     IN /\ headerChain' = addHeaders(headerChain, extraHeaders)
        /\ headerChunks' = Append(headerChunks,
                                  Chunk(t.to, t.offset, t.extraHeight, extraHeaders))
        /\ tasks' = [tasks EXCEPT ![i] = [t EXCEPT !.pc = "done", !.pushed = @ + 1]]
  /\ pc' = Rejoin(tasks')
  /\ UNCHANGED <<inputs, rootCalls, headerStore, checkpoints, outcome, failed>>

\* logOutput("Got headerChain ...") is over.
LogChainResumes ==
  /\ pc = "LogChain"
  /\ pc' = "LogTook"
  /\ UNCHANGED <<inputs, tasks, rootCalls, headerChain, headerChunks,
                 headerStore, checkpoints, outcome, failed>>

\* logOutput("buildHeaderChain took ...") is over: the HeaderStore is
\* assembled (the sort is in place) and printed.
LogTookResumes ==
  /\ pc = "LogTook"
  /\ headerChunks' = SortChunks(headerChunks)
  /\ headerStore' = getHeaderStoreFromChunks(headerChunks)
  /\ pc' = "LogStore"
  /\ UNCHANGED <<inputs, tasks, rootCalls, headerChain, checkpoints, outcome,
                 failed>>

\* logOutput("Got headerStore ...") is over: buildHeaderChain returns and
\* validateCheckpoints samples and checks.
LogStoreResumes ==
  /\ pc = "LogStore"
  /\ \E cps \in ShuffleSlice(Hashes(headerChain)) :
       /\ checkpoints' = cps
       /\ outcome' = IF CheckpointsPresent(cps, headerChain)
                     THEN "valid" ELSE "invalid"
  /\ pc' = "Validating"
  /\ UNCHANGED <<inputs, tasks, rootCalls, headerChain, headerChunks,
                 headerStore, failed>>

\* The logOutput of validateCheckpoints is over: sync returns.
ValidatingResumes ==
  /\ pc = "Validating"
  /\ pc' = "Done"
  /\ UNCHANGED <<inputs, tasks, rootCalls, headerChain, headerChunks,
                 headerStore, checkpoints, outcome, failed>>

Next ==
  \/ Start
  \/ RootHashReturns
  \/ RootCallFails
  \/ RootHeaderReturns
  \/ \E i \in DOMAIN tasks : TaskCallReturns(i)
  \/ \E i \in DOMAIN tasks : TaskCallFails(i)
  \/ \E i \in DOMAIN tasks : TaskLogResumes(i)
  \/ \E i \in DOMAIN tasks : TaskExtraReturns(i)
  \/ LogChainResumes
  \/ LogTookResumes
  \/ LogStoreResumes
  \/ ValidatingResumes

Spec == Init /\ [][Next]_vars

\* The orchestrator state of the run.
State ==
  CASE pc = "Idle" -> "Idle"
    [] pc \in {"FetchingRootHash", "FetchingRootHeader"} -> "FetchingRoot"
    [] pc \in {"BuildingChain", "LogChain", "LogTook"} -> "BuildingChain"
    [] pc \in {"LogStore", "Validating"} -> "Validating"
    [] pc = "Done" -> "Done"
    [] pc = "Failed" -> "Failed"

\* ------------------------------------ getHeaderStoreFromChunks on its own
\* A chunk that arrived as the k-th of its list, with n items; each item
\* carries where it came from, <<k, j>>, so that the pairing of a height
\* with its original header can be read off the result.
ArrivedChunk(k, from, n) ==
  [from |-> from, to |-> Num(from + n), items |-> [j \in 1..n |-> <<k, j>>]]

\* headerChunks is some list of at most MaxChunks chunks with small `from`
\* and few items.
SmallChunkList ==
  \E n \in 0..MaxChunks :
    \E f \in [1..n -> (0..MaxChunkFrom) \X (0..MaxItems)] :
      headerChunks = [k \in 1..n |-> ArrivedChunk(k, f[k][1], f[k][2])]

\* Chunks of 10 items tiling [0, 100), arriving in the given order.
TilingChunks(order) == [k \in 1..Len(order) |-> ArrivedChunk(k, 10 * order[k], 10)]

TilingOrders ==
  {<<0, 1, 2, 3, 4, 5, 6, 7, 8, 9>>, <<9, 8, 7, 6, 5, 4, 3, 2, 1, 0>>,
   <<3, 0, 7, 1, 9, 4, 2, 8, 6, 5>>, <<5, 6, 7, 8, 9, 0, 1, 2, 3, 4>>}

\* Chunks [0,10) and [20,30) with [10,20) missing, in both arrival orders.
GapChunkLists == {TilingChunks(<<0, 2>>), TilingChunks(<<2, 0>>)}

InitAssemble ==
  /\ seeds = <<>>
  /\ parallel = FALSE
  /\ fromHeight = 0
  /\ toHeight = 0
  /\ step = 0
  /\ pc = "LogTook"
  /\ tasks = <<>>
  /\ rootCalls = <<>>
  /\ headerChain = SpvChain(0)
  /\ \/ SmallChunkList
     \/ headerChunks \in GapChunkLists \cup {TilingChunks(o) : o \in TilingOrders}
  /\ headerStore = <<>>
  /\ checkpoints = <<>>
  /\ outcome = "none"
  /\ failed = FALSE

SpecAssemble == InitAssemble /\ [][LogTookResumes]_vars

\* ------------------------------------------------------------ vocabulary
Last == Len(seeds)

\* The run is past the join: every dispatched invocation has returned.
PostJoin == pc \in {"LogChain", "LogTook", "LogStore", "Validating", "Done"}
Assembled == pc \in {"LogStore", "Validating", "Done"}

\* The heights one batch call asks for.
CallSpan(c) ==
  IF IsNaN(c.count) THEN {} ELSE c.height..(c.height + Val(c.count) - 1)

\* The heights the batch calls of an invocation have asked for so far.
Requested(t) == UNION {CallSpan(t.calls[k]) : k \in 1..Len(t.calls)}

RECURSIVE SumCounts(_)
SumCounts(cs) ==
  IF cs = <<>> THEN 0
  ELSE (IF IsNaN(Head(cs).count) THEN 0 ELSE Val(Head(cs).count))
       + SumCounts(Tail(cs))

\* The sub-range of source i (1-based) as the tiling contract states it:
\* [fromHeight + (i-1)*heightDelta, fromHeight + i*heightDelta), the last
\* source's reaching up to toHeight.
SubFrom(i) == fromHeight + (i - 1) * (heightDiff \div Len(seeds))
SubTo(i) ==
  IF i = Last THEN toHeight ELSE fromHeight + i * (heightDiff \div Len(seeds))

\* The range an invocation is to fetch: its sub-range in parallel mode, the
\* whole range in sequential mode.
RangeFrom(i) == IF parallel THEN SubFrom(i) ELSE fromHeight
RangeTo(i) == IF parallel THEN SubTo(i) ELSE toHeight

\* C1: in parallel mode, with fromHeight < toHeight, step > 0, at least one
\* source and every call successful, the spans requested by the tasks cover
\* every height of [fromHeight, toHeight), and the counts requested by the
\* task of source i add up to the length of its sub-range.
C1_TilingCoverage ==
  (parallel /\ fromHeight < toHeight /\ step > 0 /\ Len(seeds) >= 1 /\ PostJoin)
  => /\ \A h \in fromHeight..(toHeight - 1) :
          \E i \in DOMAIN tasks : h \in Requested(tasks[i])
     /\ \A i \in DOMAIN tasks :
          SumCounts(tasks[i].calls) = SubTo(i) - SubFrom(i)

\* C2: in parallel mode, with fromHeight < toHeight, step >= 0 and at least
\* one source, no height is requested by two different tasks and no task
\* requests a height outside the sub-range of its source.
C2_DisjointFetches ==
  (parallel /\ fromHeight < toHeight /\ Len(seeds) >= 1)
  => /\ \A i, j \in DOMAIN tasks :
          i # j => Requested(tasks[i]) \cap Requested(tasks[j]) = {}
     /\ \A i \in DOMAIN tasks :
          Requested(tasks[i]) \subseteq SubFrom(i)..(SubTo(i) - 1)

\* C3: an invocation of populateHeaderChain with step > 0 that has returned
\* after fetching [from, to) issued chunks of length step, followed by exactly
\* one chunk of length (to - from) mod step when that is not 0 and by none
\* when it is 0, and requested no height >= to.
C3_RemainderChunk ==
  \A i \in DOMAIN tasks :
    (step > 0 /\ Len(seeds) >= 1 /\ RangeFrom(i) <= RangeTo(i)
       /\ tasks[i].pc = "done")
    => LET cs == tasks[i].calls
           r == (RangeTo(i) - RangeFrom(i)) % step
       IN /\ \A k \in 1..Len(cs) : ~IsNaN(cs[k].count)
          /\ r # 0 => /\ Len(cs) >= 1
                      /\ Val(cs[Len(cs)].count) = r
                      /\ \A k \in 1..(Len(cs) - 1) : Val(cs[k].count) = step
          /\ r = 0 => \A k \in 1..Len(cs) : Val(cs[k].count) = step
          /\ \A h \in Requested(tasks[i]) : h < RangeTo(i)

\* C4: after a run in which every fetch succeeded (either mode,
\* fromHeight < toHeight, step > 0, at least one source) the heights of the
\* HeaderStore start at fromHeight and go up by 1, with no gap and no
\* repeated height.
C4_StoreContiguous ==
  (Assembled /\ fromHeight < toHeight /\ step > 0 /\ Len(seeds) >= 1)
  => /\ Len(headerStore) >= 1
     /\ headerStore[1].height = fromHeight
     /\ \A p \in 1..(Len(headerStore) - 1) :
          headerStore[p + 1].height = headerStore[p].height + 1

\* C5: in parallel mode, whenever buildHeaderChain is past the join, or the
\* HeaderStore has been assembled, or validateCheckpoints has reported, every
\* one of the S dispatched tasks has returned, with each of its batches
\* inserted into the chain and pushed as a chunk.
C5_JoinAll ==
  (parallel /\ (PostJoin \/ headerStore # <<>> \/ outcome # "none"))
  => /\ DOMAIN tasks = 1..Len(seeds)
     /\ \A i \in DOMAIN tasks :
          /\ tasks[i].pc = "done"
          /\ tasks[i].pushed = Len(tasks[i].calls)
          /\ tasks[i].newHeaders = <<>>
     /\ Len(headerChunks) = headerChain.batches

C5_Witness ==
  /\ parallel
  /\ Len(seeds) >= 2
  /\ pc = "Validating"
  /\ \A i \in DOMAIN tasks : Len(tasks[i].calls) >= 2

\* C6: once a remote call has failed (getBlockHash, getBlockHeader or a
\* batch call of any task, in either mode) the run is Failed: no HeaderStore
\* is assembled, validateCheckpoints is not called, and the run is neither
\* Validating nor Done, whatever the other tasks do.
C6_FailFast ==
  failed => /\ State = "Failed"
            /\ headerStore = <<>>
            /\ checkpoints = <<>>
            /\ outcome = "none"

C6_Witness ==
  /\ failed
  /\ parallel
  /\ Len(seeds) >= 2
  /\ \E i \in DOMAIN tasks :
       /\ tasks[i].pc = "failed"
       /\ \A j \in DOMAIN tasks \ {i} :
            tasks[j].pc = "done" /\ Len(tasks[j].calls) >= 1

RECURSIVE TotalItems(_)
TotalItems(chunks) ==
  IF chunks = <<>> THEN 0 ELSE Len(Head(chunks).items) + TotalItems(Tail(chunks))

\* `store` holds one entry per item of `chunks` (whose items say where they
\* came from), chunk by chunk in ascending `from`, the item at local index i
\* of a chunk at height chunk.from + i.
AssembledFrom(chunks, store) ==
  /\ Len(store) = TotalItems(chunks)
  /\ \A p \in 1..Len(store) :
       LET k == store[p].header[1]
           j == store[p].header[2]
       IN /\ k \in 1..Len(chunks)
          /\ j \in 1..Len(chunks[k].items)
          /\ store[p].header = chunks[k].items[j]
          /\ store[p].height = chunks[k].from + (j - 1)
          /\ j < Len(chunks[k].items) =>
               /\ p < Len(store)
               /\ store[p + 1].header = chunks[k].items[j + 1]
  /\ \A p, q \in 1..Len(store) :
       p < q => /\ store[p].header # store[q].header
                /\ chunks[store[p].header[1]].from <= chunks[store[q].header[1]].from

\* Chunks of 10 items whose `from` are exactly the given ones.
TenItemChunksAt(chunks, froms) ==
  /\ Len(chunks) = Cardinality(froms)
  /\ {chunks[k].from : k \in 1..Len(chunks)} = froms
  /\ \A k \in 1..Len(chunks) : Len(chunks[k].items) = 10

\* C7: getHeaderStoreFromChunks returns, for any list of chunks in any
\* arrival order, one entry per chunk item, ordered by chunk.from ascending,
\* the item at local index i of a chunk at height chunk.from + i; chunks
\* tiling [0,100) by 10 give heights 0..99 each with its original header, and
\* chunks [0,10) and [20,30) give a jump from height 9 to height 20.
C7_AssemblyResult ==
  [][(pc = "LogTook" /\ pc' = "LogStore")
       => /\ AssembledFrom(headerChunks, headerStore')
          /\ TenItemChunksAt(headerChunks, {10 * m : m \in 0..9})
               => \A p \in 1..100 :
                    /\ headerStore'[p].height = p - 1
                    /\ \E k \in 1..10 :
                         /\ headerChunks[k].from = 10 * ((p - 1) \div 10)
                         /\ headerStore'[p].header
                              = headerChunks[k].items[((p - 1) % 10) + 1]
          /\ TenItemChunksAt(headerChunks, {0, 20})
               => /\ Len(headerStore') = 20
                  /\ headerStore'[10].height = 9
                  /\ headerStore'[11].height = 20]_vars

\* The chunks tiling [0,100) arrived out of order and were assembled.
C7_Witness ==
  /\ pc = "LogStore"
  /\ Len(headerStore) = 100
  /\ headerStore[1].header[1] # 1
  /\ headerStore[100].height = 99

\* C8: after every successful buildHeaderChain the longest chain is not
\* empty, validateCheckpoints has drawn min(2, length) of its hashes at
\* distinct positions, and it reports them valid; INVALID CHECKPOINT is never
\* reported.
C8_CheckpointRoundTrip ==
  /\ outcome # "invalid"
  /\ pc \in {"Validating", "Done"}
       => LET hs == Hashes(headerChain)
          IN /\ Len(hs) >= 1
             /\ outcome = "valid"
             /\ Len(checkpoints) = (IF Len(hs) < 2 THEN Len(hs) ELSE 2)
             /\ Len(checkpoints) = 1 =>
                  \E a \in 1..Len(hs) : checkpoints = <<hs[a]>>
             /\ Len(checkpoints) = 2 =>
                  \E a, b \in 1..Len(hs) :
                    a # b /\ checkpoints = <<hs[a], hs[b]>>

C8_Witness ==
  /\ pc = "Done"
  /\ outcome = "valid"
  /\ Len(checkpoints) = 2
  /\ Len(headerChunks) >= 2

\* C9: a run with toHeight < fromHeight, or a parallel run with no source,
\* issues no remote call at all and reaches neither Validating nor Done.
C9_RangeRejectedBeforeIO ==
  (toHeight < fromHeight \/ (parallel /\ Len(seeds) = 0))
  => /\ rootCalls = <<>>
     /\ \A i \in DOMAIN tasks : tasks[i].calls = <<>>
     /\ State \notin {"Validating", "Done"}

RootLookups ==
  <<[op |-> "getBlockHash", arg |-> fromHeight],
    [op |-> "getBlockHeader", arg |-> fromHeight]>>

Moves ==
  {<<"Idle", "FetchingRoot">>, <<"FetchingRoot", "BuildingChain">>,
   <<"BuildingChain", "Validating">>, <<"Validating", "Done">>,
   <<"FetchingRoot", "Failed">>, <<"BuildingChain", "Failed">>}

\* C10: the state of a run changes only along Idle -> FetchingRoot ->
\* BuildingChain -> Validating -> Done, or to Failed from FetchingRoot or
\* BuildingChain; the remote calls begin with getBlockHash(fromHeight) and
\* getBlockHeader of its result, a batch call is issued only once the chain
\* has been constructed from that root, and a run that is Validating can
\* always go on to Done.
C10_StateMachine ==
  /\ [][State' = State \/ <<State, State'>> \in Moves]_vars
  /\ [](/\ \E n \in 0..2 : rootCalls = SubSeq(RootLookups, 1, n)
        /\ (tasks # <<>> \/ State \in {"BuildingChain", "Validating", "Done"})
             => /\ rootCalls = RootLookups
                /\ headerChain.built
                /\ headerChain.root = fromHeight
                /\ headerChain.headers # {}
        /\ pc = "Validating" => ENABLED ValidatingResumes)

C10_Witness ==
  /\ pc = "Done"
  /\ fromHeight > 0
  /\ \E i \in DOMAIN tasks : Len(tasks[i].calls) >= 2

\* The inputs of the automatic partition: parallel, step 0, at least one
\* source, a positive range that the sources share without remainder.
AutoPartition ==
  /\ parallel
  /\ step = 0
  /\ Len(seeds) >= 1
  /\ heightDiff > 0
  /\ heightDiff % Len(seeds) = 0
  /\ heightDiff \div Len(seeds) <= 2000

\* C11: under AutoPartition the resolved step is heightDelta and, from its
\* dispatch on, the task of source i (counted from 0) has issued exactly one
\* batch call, getBlockHeaders(fromHeight + i*heightDelta, heightDelta), so
\* that it covers exactly its sub-range.
C11_AutoStepPartition ==
  (AutoPartition /\ tasks # <<>>)
  => LET d == heightDiff \div Len(seeds)
     IN /\ bestStep = Num(d)
        /\ DOMAIN tasks = 1..Len(seeds)
        /\ \A i \in DOMAIN tasks :
             /\ Len(tasks[i].calls) = 1
             /\ tasks[i].calls[1].height = fromHeight + (i - 1) * d
             /\ tasks[i].calls[1].count = Num(d)
             /\ Requested(tasks[i])
                  = (fromHeight + (i - 1) * d)..(fromHeight + i * d - 1)

C11_Witness ==
  /\ AutoPartition
  /\ Len(seeds) = 2
  /\ heightDiff \div Len(seeds) >= 2
  /\ pc = "Done"

\* Sequential mode with a step that divides the range.
SequentialExact ==
  /\ ~parallel
  /\ step > 0
  /\ fromHeight <= toHeight
  /\ heightDiff % step = 0

\* The run issued heightDiff / step batch calls and its HeaderStore, once
\* assembled, has heightDiff entries with heights going up by 1.
SequentialCounts ==
  /\ Len(tasks[1].calls) = heightDiff \div step
  /\ Assembled =>
       /\ Len(headerStore) = heightDiff
       /\ \A p \in 1..(Len(headerStore) - 1) :
            headerStore[p + 1].height = headerStore[p].height + 1

OtherSeeds(i) == SelectSeq(seeds, LAMBDA s : s # seeds[i])

\* C13: in parallel mode every batch call issued by the task of a seed, the
\* call for the extra headers of the last source included, carries as its
\* exclusion list exactly the other seeds.
C13_ExclusionPassThrough ==
  parallel =>
    \A i \in DOMAIN tasks :
      \A k \in 1..Len(tasks[i].calls) :
        /\ tasks[i].calls[k].excludedIps.defined
        /\ tasks[i].calls[k].excludedIps.ips = OtherSeeds(i)

\* C14: within one populateHeaderChain invocation the batch calls start at
\* strictly ascending heights, every call but the last has had its result
\* inserted and recorded, the last call is the only one that can be
\* outstanding, and a failed call is the last call of its invocation.
C14_OneCallAtATime ==
  \A i \in DOMAIN tasks :
    LET t == tasks[i]
    IN /\ \A k \in 1..(Len(t.calls) - 1) :
            t.calls[k].height < t.calls[k + 1].height
       /\ t.pc \in {"call", "log", "extra", "failed"} =>
            t.pushed = Len(t.calls) - 1
       /\ t.pc = "done" => t.pushed = Len(t.calls)

\* The chunks the batch calls of an invocation produce, in call order, the
\* sources being deterministic.
CallChunks(t) ==
  [k \in 1..Len(t.calls) |->
     Chunk(t.calls[k].height, t.offset, t.calls[k].count,
           getBlockHeaders(t.calls[k].height, t.calls[k].count))]

\* The chunks of the first n tasks, task after task in index order: the
\* chunk list of the run in which no two tasks interleave.
RECURSIVE ChunksInTaskOrder(_)
ChunksInTaskOrder(n) ==
  IF n = 0 THEN <<>> ELSE ChunksInTaskOrder(n - 1) \o CallChunks(tasks[n])

DistinctFroms ==
  \A a, b \in 1..Len(headerChunks) :
    a # b => headerChunks[a].from # headerChunks[b].from

StoreOfTaskOrder ==
  headerStore = getHeaderStoreFromChunks(ChunksInTaskOrder(Len(tasks)))

AwaitPoints == {"call", "log", "extra", "done", "failed"}

RECURSIVE SumPushed(_)
SumPushed(n) == IF n = 0 THEN 0 ELSE SumPushed(n - 1) + tasks[n].pushed

\* C16: in parallel mode with S >= 2, whenever control is yielded no task
\* stands between addHeaders and the matching headerChunks.push: every task
\* is at an await or has ended, and the number of recorded chunks equals the
\* number of batches inserted into the chain, which is the number of batches
\* the tasks have completed.
C16_SerializedInsertion ==
  (parallel /\ Len(seeds) >= 2) =>
    /\ \A i \in DOMAIN tasks : tasks[i].pc \in AwaitPoints
    /\ Len(headerChunks) = headerChain.batches
    /\ Len(headerChunks) = SumPushed(Len(tasks))

\* Batch calls of two tasks are outstanding at once, after an insertion.
C16_Witness ==
  /\ parallel
  /\ Len(seeds) >= 2
  /\ Len(tasks) >= 2
  /\ tasks[1].pc = "call"
  /\ tasks[2].pc = "call"
  /\ tasks[1].pushed >= 1
  /\ tasks[2].pushed >= 1

\* C17: with an empty source list, the parallel flag set or not, one
\* sequential invocation covers the whole span: for fromHeight < toHeight and
\* step > 0, once the chain is built a single invocation has asked for every
\* height of [fromHeight, toHeight).
C17_ZeroSourceFallback ==
  (Len(seeds) = 0 /\ fromHeight < toHeight /\ step > 0 /\ PostJoin) =>
    /\ Len(tasks) = 1
    /\ (fromHeight..(toHeight - 1)) \subseteq Requested(tasks[1])

\* C18 as stated: in parallel mode, once the run is Failed no sibling task
\* issues a further getBlockHeaders call and the chain structure and the
\* chunk list do not change any more.
C18_NoContinuation ==
  [][(parallel /\ pc = "Failed") =>
       /\ \A i \in DOMAIN tasks : tasks'[i].calls = tasks[i].calls
       /\ headerChain' = headerChain
       /\ headerChunks' = headerChunks]_vars

\* C18 as amended: in parallel mode, once the run is Failed it stays Failed,
\* a failed task stays failed, and nothing is assembled or validated: the
\* HeaderStore, the checkpoints and the reported outcome do not change.
\* Sibling tasks are not cancelled.
C18_FailedIsFinal ==
  [][(parallel /\ pc = "Failed") =>
       /\ pc' = "Failed"
       /\ \A i \in DOMAIN tasks : tasks[i].pc = "failed" => tasks'[i] = tasks[i]
       /\ headerStore' = headerStore
       /\ checkpoints' = checkpoints
       /\ outcome' = outcome]_vars

\* The run is Failed by the first call of one task while a sibling, which
\* has inserted a batch, has a call outstanding.
C18_Witness ==
  /\ parallel
  /\ pc = "Failed"
  /\ Len(tasks) >= 2
  /\ tasks[1].pc = "failed"
  /\ tasks[1].pushed = 0
  /\ tasks[2].pc = "call"
  /\ tasks[2].pushed >= 1

\* C19: for fromHeight <= toHeight and S >= 1, in both modes, a
\* populateHeaderChain invocation issues at most one batch call per height of
\* the range and one call for the extra headers, so finitely many.
C19_FinitelyManyCalls ==
  (fromHeight <= toHeight /\ Len(seeds) >= 1) =>
    \A i \in DOMAIN tasks : Len(tasks[i].calls) <= heightDiff + 1

====
